---- MODULE Spec2Model ----
(***************************************************************************)
(* A model of the `wasm bundle` command of enarx-archive/client:           *)
(*   src/src/util/ofile.rs   OutputFile: a file removed on drop unless     *)
(*                           done() was called                             *)
(*   src/src/wasm/bundle.rs  strip_section (the streaming strip pass over  *)
(*                           wasmparser's incremental Parser) and          *)
(*                           Bundle::execute (prepare, strip, append,      *)
(*                           done)                                         *)
(* Bytes are naturals 0..255, files are byte sequences, and the parser is  *)
(* modelled by what Parser::parse does on the buffer it is handed.         *)
(***************************************************************************)
EXTENDS Integers, Sequences, FiniteSets, TLC

(***************************************************************************)
(* Bounds of the model.                                                    *)
(***************************************************************************)
\* the largest number of top-level sections of a generated input module
MaxSections == 2
\* the width in bits of the platform word (usize), scaled down
UsizeBits == 4

(***************************************************************************)
(* Bytes, LEB128 and the binary format.                                    *)
(***************************************************************************)
\* section id of a custom section (bundle.rs:144)
CustomId == 0
\* the id the parser gives the module code section, whose entries are
\* nested modules (Payload::ModuleCodeSectionEntry, bundle.rs:101)
ModuleCodeId == 17
\* Parser::new(0).max_size is u64::MAX: no limit, written as TLC's largest Int
NoLimit == 2147483647

Magic == <<0, 97, 115, 109>>
Version == <<1, 0, 0, 0>>
Header == Magic \o Version

Min(a, b) == IF a < b THEN a ELSE b

RECURSIVE Pow2(_)
Pow2(n) == IF n = 0 THEN 1 ELSE 2 * Pow2(n - 1)

\* usize::MAX of the modelled platform
UsizeMax == Pow2(UsizeBits) - 1

RECURSIVE Leb128(_)
\* lebicon: n.encode(w, Leb128): 7 bits per byte, low group first, the high
\* bit set on every byte but the last
Leb128(n) ==
    IF n < 128 THEN <<n>>
    ELSE <<128 + (n % 128)>> \o Leb128(n \div 128)

Drain(s, k) == SubSeq(s, k + 1, Len(s))
Take(s, k) == SubSeq(s, 1, k)

(***************************************************************************)
(* wasmparser's BinaryReader and Parser, as used at bundle.rs:84.          *)
(* A read yields [t |-> "ok", ...], [t |-> "eof", hint |-> h] (h more      *)
(* bytes are needed) or [t |-> "err"] (no more data can help).             *)
(***************************************************************************)
ROk(val, n) == [t |-> "ok", val |-> val, n |-> n, hint |-> 0]
REof(h) == [t |-> "eof", val |-> 0, n |-> 0, hint |-> h]
RErr == [t |-> "err", val |-> 0, n |-> 0, hint |-> 0]

RECURSIVE ReadVarFrom(_, _, _)
\* BinaryReader::read_var_u32 at position pos (1-based), k bytes read so far
ReadVarFrom(data, pos, k) ==
    IF pos > Len(data) THEN REof(1)
    ELSE IF k >= 5 THEN RErr
    ELSE LET b == data[pos] IN
         IF b < 128 THEN ROk(b, 1)
         ELSE LET r == ReadVarFrom(data, pos + 1, k + 1) IN
              IF r.t = "ok" THEN ROk((b - 128) + 128 * r.val, r.n + 1) ELSE r

ReadVar(data, pos) == ReadVarFrom(data, pos, 0)

\* a parser: its state, the bytes it may still see (max_size), and within a
\* module code section the entries and bytes left
NewParser(max) == [state |-> "ModuleHeader", max_size |-> max, remaining |-> 0, len |-> 0]

Dec(m, k) == IF m = NoLimit THEN NoLimit ELSE m - k

NoParser == NewParser(0)

POk(consumed, kind, name, p, sub) ==
    [t |-> "ok", consumed |-> consumed, kind |-> kind, name |-> name,
     p |-> p, sub |-> sub, hint |-> 0]
PEof(h) ==
    [t |-> "eof", consumed |-> 0, kind |-> "", name |-> <<>>,
     p |-> NoParser, sub |-> NoParser, hint |-> h]
PErr ==
    [t |-> "err", consumed |-> 0, kind |-> "", name |-> <<>>,
     p |-> NoParser, sub |-> NoParser, hint |-> 0]

\* Parser::parse_reader, State::ModuleHeader: magic, then version
ParseHeader(p, data) ==
    IF Len(data) < 4 THEN PEof(4 - Len(data))
    ELSE IF Take(data, 4) # Magic THEN PErr
    ELSE IF Len(data) < 8 THEN PEof(8 - Len(data))
    ELSE IF SubSeq(data, 5, 8) # Version THEN PErr
    ELSE POk(8, "Version", <<>>, [p EXCEPT !.state = "SectionStart"], NoParser)

\* the name of a custom section: read_string on the section's contents
\* (the hint of a failure here is cleared: the section is already whole)
CustomName(content) ==
    LET v == ReadVar(content, 1) IN
    IF v.t # "ok" THEN RErr
    ELSE IF v.n + v.val > Len(content) THEN RErr
    ELSE [t |-> "ok", val |-> SubSeq(content, v.n + 1, v.n + v.val), n |-> v.n + v.val, hint |-> 0]

\* Parser::parse_reader, State::SectionStart
ParseSection(p, data, eof) ==
    IF eof /\ Len(data) = 0 THEN POk(0, "End", <<>>, p, NoParser)
    ELSE IF Len(data) < 1 THEN PEof(1)
    ELSE IF data[1] >= 128 THEN PErr
    ELSE LET id == data[1]
             l == ReadVar(data, 2)
             hdr == 1 + l.n
         IN
         IF l.t = "eof" THEN PEof(l.hint)
         ELSE IF l.t = "err" THEN PErr
         ELSE IF p.max_size < hdr + l.val THEN PErr
         ELSE IF id = ModuleCodeId THEN
              LET c == ReadVar(data, hdr + 1) IN
              IF c.t = "eof" THEN PEof(c.hint)
              ELSE IF c.t = "err" \/ c.n > l.val THEN PErr
              ELSE POk(hdr + c.n, "ModuleCodeSectionStart", <<>>,
                       [p EXCEPT !.state = "ModuleCode", !.remaining = c.val,
                                 !.len = l.val - c.n], NoParser)
         ELSE IF Len(data) < hdr + l.val THEN PEof(hdr + l.val - Len(data))
         ELSE IF id = CustomId THEN
              LET nm == CustomName(SubSeq(data, hdr + 1, hdr + l.val)) IN
              IF nm.t # "ok" THEN PErr
              ELSE POk(hdr + l.val, "CustomSection", nm.val, p, NoParser)
         ELSE POk(hdr + l.val, "Section", <<>>, p, NoParser)

\* Parser::parse_reader, State::ModuleCode: the size of the next nested
\* module, and a fresh parser limited to that many bytes
ParseModuleCode(p, data, eof) ==
    IF p.remaining = 0
    THEN IF p.len = 0
         THEN ParseSection([p EXCEPT !.state = "SectionStart"], data, eof)
         ELSE PErr
    ELSE LET s == ReadVar(data, 1) IN
         IF s.t = "eof" THEN PEof(s.hint)
         ELSE IF s.t = "err" \/ s.n > p.len \/ s.val > p.len - s.n THEN PErr
         ELSE POk(s.n, "ModuleCodeSectionEntry", <<>>,
                  [p EXCEPT !.remaining = p.remaining - 1,
                            !.len = p.len - s.n - s.val,
                            !.max_size = Dec(p.max_size, s.val)],
                  NewParser(s.val))

ParseReader(p, data, eof) ==
    CASE p.state = "ModuleHeader" -> ParseHeader(p, data)
      [] p.state = "SectionStart" -> ParseSection(p, data, eof)
      [] p.state = "ModuleCode" -> ParseModuleCode(p, data, eof)

\* (mutant) the end of the input is not taken for an error
EofNeverError(e) == FALSE

\* does an end of input turn "more bytes needed" into an error?
EofIsError(e) == e

\* Parser::parse(&buffer, eofile): the parser sees at most max_size bytes,
\* and then as if at the end of the input; a successful parse advances the
\* parser by the bytes consumed; an "eof" failure asks for more data unless
\* the input has ended
Parse(p, buffer, eofile) ==
    LET over == Len(buffer) > p.max_size
        data == IF over THEN Take(buffer, p.max_size) ELSE buffer
        e == over \/ eofile
        r == ParseReader(p, data, e)
    IN IF r.t = "ok"
       THEN [r EXCEPT !.p = [r.p EXCEPT !.max_size = Dec(r.p.max_size, r.consumed)]]
       ELSE IF r.t = "eof" /\ ~EofIsError(e) THEN r
       ELSE PErr

(***************************************************************************)
(* The inputs: modules built from the grammar                              *)
(*   module := header, section*     section := id, length:varint, payload  *)
(*   custom payload := name_len:varint, name, content                      *)
(* their truncations, and a file that is no module at all.                 *)
(***************************************************************************)
\* the section name given on the command line ("X"), and another name of
\* which it is a proper prefix ("XY")
Section == <<88>>
OtherName == <<88, 89>>

EncCustom(name, content) ==
    LET payload == Leb128(Len(name)) \o name \o content
    IN <<CustomId>> \o Leb128(Len(payload)) \o payload

\* a section with an id the parser does not know (64): an opaque span
EncOpaque(content) == <<64>> \o Leb128(Len(content)) \o content

RECURSIVE EncEntries(_)
EncEntries(mods) ==
    IF mods = <<>> THEN <<>>
    ELSE Leb128(Len(Head(mods))) \o Head(mods) \o EncEntries(Tail(mods))

EncModuleCode(mods) ==
    LET body == Leb128(Len(mods)) \o EncEntries(mods)
    IN <<ModuleCodeId>> \o Leb128(Len(body)) \o body

FlatSecs == {EncCustom(Section, <<7>>), EncCustom(OtherName, <<8>>), EncOpaque(<<5>>)}

NestedMods == {Header, Header \o EncCustom(Section, <<7>>), Header \o EncOpaque(<<5>>)}

TopSecs == FlatSecs \cup {EncModuleCode(<<m>>) : m \in NestedMods}

RECURSIVE Bodies(_)
Bodies(k) ==
    IF k = 0 THEN {<<>>}
    ELSE LET B == Bodies(k - 1) IN B \cup {b \o s : b \in B, s \in TopSecs}

\* two nested modules in one section, and a module nested in a nested module
DeepMods ==
    {Header \o EncModuleCode(<<Header, Header \o EncOpaque(<<5>>)>>),
     Header \o EncModuleCode(<<Header \o EncModuleCode(<<Header>>)>>)}

WellFormed == {Header \o b : b \in Bodies(MaxSections)} \cup DeepMods

Prefixes(s) == {Take(s, k) : k \in 0..(Len(s) - 1)}

Truncated ==
    UNION {Prefixes(Header \o s) :
           s \in {EncCustom(Section, <<7>>), EncOpaque(<<5>>), EncModuleCode(<<Header>>),
                  EncModuleCode(<<Header \o EncOpaque(<<5>>)>>)}}

Inputs == WellFormed \cup Truncated \cup {<<1, 2, 3, 4>>}

RECURSIVE Fill(_)
Fill(n) == IF n = 0 THEN <<>> ELSE <<9>> \o Fill(n - 1)

\* the archives: a short one, one whose section length overflows usize, and
\* one whose own length does not fit usize
Tarballs == {<<9, 9>>, Fill(UsizeMax - 1), Fill(UsizeMax + 1)}

Paths == {"in", "out", "out2"}

\* what is at a path: a file with its content, or nothing
File(content) == [exists |-> TRUE, data |-> content]
NoFile == [exists |-> FALSE, data |-> <<>>]

(***************************************************************************)
(* The state of one invocation of `wasm bundle`, and of the file system.   *)
(***************************************************************************)
VARIABLES
    fs,           \* the file system: path -> File(content), or NoFile
    iwasm,        \* Bundle.iwasm: the path of the input module
    owasm,        \* Bundle.owasm: the path of the output module
    run,          \* "first" or "second": which invocation this is
    pc,           \* where execute stands, or how it ended
    err,          \* the error execute returned ("" while there is none)
    tarball,      \* the content of the prepared archive
    payload_len,  \* execute's payload_len
    inpos,        \* the read position of inwasm
    buffer,       \* strip_section's buffer
    parser,       \* strip_section's parser
    eofile,       \* strip_section's eofile
    pstack,       \* strip_section's pstack
    inner,        \* OutputFile.0: "Unborn" before create, then "Some" or "None"
    rm,           \* what remove_file returned in Drop: "none" until it is called
    fs0,          \* the file system when this invocation began
    depth,        \* nested modules entered and not yet ended
    marks,        \* per input byte consumed so far: did its event take the
                  \* write arm of the match?
    droplog,      \* what Drop did to an armed handle, in order
    test          \* the threads of ofile.rs's tests (idle while the command runs)

vars == <<fs, iwasm, owasm, run, pc, err, tarball, payload_len, inpos, buffer,
          parser, eofile, pstack, inner, rm, fs0, depth, marks, droplog, test>>

stripVars == <<buffer, parser, eofile, pstack, inpos, depth, marks>>

\* a file at the output path before the run
OldOutput == <<42>>

\* the tests of ofile.rs, each a thread of the test process
Tests == {"removed", "retained"}

\* no test thread has started
NoTest ==
    [pc |-> [t \in Tests |-> "idle"],
     inner |-> [t \in Tests |-> "Unborn"],
     line |-> [t \in Tests |-> 0]]

Init ==
    /\ iwasm = "in"
    /\ owasm \in {"in", "out"}
    /\ \E i \in Inputs, o \in {NoFile, File(OldOutput)} :
          fs = [p \in Paths |->
                  IF p = "in" THEN File(i)
                  ELSE IF p = "out" THEN o ELSE NoFile]
    /\ run = "first"
    /\ pc = "prepare"
    /\ err = ""
    /\ tarball = <<>>
    /\ payload_len = 0
    /\ inpos = 0
    /\ buffer = <<>>
    /\ parser = NewParser(NoLimit)
    /\ eofile = FALSE
    /\ pstack = <<>>
    /\ inner = "Unborn"
    /\ rm = "none"
    /\ fs0 = fs
    /\ depth = 0
    /\ marks = <<>>
    /\ droplog = <<>>
    /\ test = NoTest

(***************************************************************************)
(* OutputFile (ofile.rs).                                                  *)
(***************************************************************************)
\* OutputFile::create: File::create makes the file, or truncates the one there
CreateFile(f, path) == [f EXCEPT ![path] = File(<<>>)]

\* (mutant) one write(..) that leaves the last byte unwritten
WriteShort(f, path, bytes) ==
    [f EXCEPT ![path] = File(f[path].data \o Take(bytes, Len(bytes) - 1))]

\* impl Write for OutputFile: write_all appends at the file's position
WriteAll(f, path, bytes) == [f EXCEPT ![path] = File(f[path].data \o bytes)]

\* (mutant) done() that leaves the handle armed
DoneKeep(i) == i

\* OutputFile::done: self.0.take() leaves None behind
DoneTake(i) == "None"

\* (mutant) a Drop that does not look at the Option
DropAlways(i) == TRUE

\* (mutant) a Drop that never removes the file
DropNever(i) == FALSE

\* Drop for OutputFile: `if let Some(..) = self.0.take()`
DropIsArmed(i) == i = "Some"

\* Drop for OutputFile: the file is closed, then remove_file(path) is called
\* and its result dropped; rmok is whether the removal succeeded
DropFs(i, f, path, rmok) ==
    IF DropIsArmed(i) /\ rmok THEN [f EXCEPT ![path] = NoFile] ELSE f

DropRm(i, rmok) ==
    IF DropIsArmed(i) THEN (IF rmok THEN "ok" ELSE "failed") ELSE rm

\* Drop for OutputFile, lines 38-39 in order: drop(file), then remove_file
DropOrder == <<"close", "remove_file">>

DropLog(i) == IF DropIsArmed(i) THEN droplog \o DropOrder ELSE droplog

\* (mutant) a removal that fails is reported in place of the error that
\* made the run fail
AbandonReportsRemoval(how, e) ==
    \E rmok \in BOOLEAN :
        /\ fs' = DropFs(inner, fs, owasm, rmok)
        /\ rm' = DropRm(inner, rmok)
        /\ droplog' = DropLog(inner)
        /\ inner' = IF inner = "Unborn" THEN inner ELSE "None"
        /\ pc' = how
        /\ err' = IF rmok THEN e ELSE "RemoveFailed"

\* an error return (or a panic's unwinding) out of a scope that owns the
\* OutputFile: the handle is dropped
Abandon(how, e) ==
    \E rmok \in BOOLEAN :
        /\ fs' = DropFs(inner, fs, owasm, rmok)
        /\ rm' = DropRm(inner, rmok)
        /\ droplog' = DropLog(inner)
        /\ inner' = IF inner = "Unborn" THEN inner ELSE "None"
        /\ pc' = how
        /\ err' = e

(***************************************************************************)
(* Bundle::execute up to the strip pass (bundle.rs:126-141, 76-81).        *)
(***************************************************************************)
\* name_len: name.len().encode(&mut name_len, Leb128)
NameLen == Leb128(Len(Section))

\* prepare_tarball succeeds: a directory was archived, or the archive given
\* passed the scan of its entries
PrepareTarball ==
    /\ pc = "prepare"
    /\ \E t \in Tarballs : tarball' = t
    /\ pc' = "len"
    /\ UNCHANGED <<fs, iwasm, owasm, run, err, payload_len, inner, rm, droplog, fs0, test>>
    /\ UNCHANGED stripVars

\* prepare_tarball fails: metadata/open/tempfile (IOError) or entries()
\* (InvalidArchive)
PrepareTarballFail ==
    /\ pc = "prepare"
    /\ \E e \in {"IOError", "InvalidArchive"} : err' = e
    /\ pc' = "exit_err"
    /\ UNCHANGED <<fs, iwasm, owasm, run, tarball, payload_len, inner, rm, droplog, fs0, test>>
    /\ UNCHANGED stripVars

\* usize::try_from(tarball_len)? + name.len() + name_len.len(): the
\* conversion fails above usize::MAX; the sum of usize values that overflows
\* panics in a build with overflow checks and wraps in one without
PayloadLen(tarball_len, checks) ==
    LET sum == tarball_len + Len(Section) + Len(NameLen) IN
    IF tarball_len > UsizeMax THEN [t |-> "err", val |-> 0]
    ELSE IF sum <= UsizeMax THEN [t |-> "ok", val |-> sum]
    ELSE IF checks THEN [t |-> "panic", val |-> 0]
    ELSE [t |-> "ok", val |-> sum % (UsizeMax + 1)]

ComputeLen ==
    /\ pc = "len"
    /\ \E checks \in BOOLEAN :
        LET r == PayloadLen(Len(tarball), checks) IN
        /\ payload_len' = r.val
        /\ pc' = CASE r.t = "ok" -> "open"
                   [] r.t = "err" -> "exit_err"
                   [] r.t = "panic" -> "panic"
        /\ err' = IF r.t = "err" THEN "IntegerOverflow" ELSE err
    /\ UNCHANGED <<fs, iwasm, owasm, run, tarball, inner, rm, droplog, fs0, test>>
    /\ UNCHANGED stripVars

\* strip_section, lines 76-80: the locals, and File::open(ifile)
OpenInput ==
    /\ pc = "open"
    /\ fs[iwasm].exists
    /\ pc' = "create"
    /\ UNCHANGED <<fs, iwasm, owasm, run, err, tarball, payload_len, inner, rm, droplog, fs0, test>>
    /\ UNCHANGED stripVars

\* (mutant) the output is created before the input is opened: a failing
\* open drops the handle of an output already truncated
OpenInputFailAfterCreate ==
    /\ pc = "open"
    /\ pc' = "exit_err"
    /\ err' = "IOError"
    /\ fs' = DropFs("Some", CreateFile(fs, owasm), owasm, TRUE)
    /\ UNCHANGED <<iwasm, owasm, run, tarball, payload_len, inner, rm, droplog, fs0, test>>
    /\ UNCHANGED stripVars

\* File::open(ifile)? fails (the file is missing or unreadable)
OpenInputFail ==
    /\ pc = "open"
    /\ pc' = "exit_err"
    /\ err' = "IOError"
    /\ UNCHANGED <<fs, iwasm, owasm, run, tarball, payload_len, inner, rm, droplog, fs0, test>>
    /\ UNCHANGED stripVars

\* OutputFile::create(ofile)?, line 81
CreateOutput ==
    /\ pc = "create"
    /\ fs' = CreateFile(fs, owasm)
    /\ inner' = "Some"
    /\ pc' = "strip"
    /\ UNCHANGED <<iwasm, owasm, run, err, tarball, payload_len, rm, droplog, fs0, test>>
    /\ UNCHANGED stripVars

CreateOutputFail ==
    /\ pc = "create"
    /\ pc' = "exit_err"
    /\ err' = "IOError"
    /\ UNCHANGED <<fs, iwasm, owasm, run, tarball, payload_len, inner, rm, droplog, fs0, test>>
    /\ UNCHANGED stripVars

(***************************************************************************)
(* strip_section's loop (bundle.rs:83-122): one action per way an          *)
(* iteration can go.                                                       *)
(***************************************************************************)
Chunk == Parse(parser, buffer, eofile)

RECURSIVE Zeros(_)
Zeros(n) == IF n = 0 THEN <<>> ELSE <<0>> \o Zeros(n - 1)

\* what a read of at most `want` bytes may return with `avail` bytes left:
\* zero only at the end of the input (or for an empty slice), else any
\* count from one up to what was asked for and is there
ReadSizes(want, avail) ==
    IF Min(want, avail) = 0 THEN {0} ELSE 1..Min(want, avail)

\* (mutant) the buffer is not truncated to what was read
ReadIntoNoTruncate(buf, hint, bytes) ==
    LET len == Len(buf)
        n == Len(bytes)
        ext == buf \o Zeros(hint)
    IN [i \in 1..Len(ext) |->
          IF i > len /\ i <= len + n THEN bytes[i - len] ELSE ext[i]]

\* lines 89-93: extend the buffer by hint zero bytes, read n bytes into the
\* new region, truncate to what was read
ReadInto(buf, hint, bytes) ==
    LET len == Len(buf)
        n == Len(bytes)
        ext == buf \o Zeros(hint)
        filled == [i \in 1..Len(ext) |->
                     IF i > len /\ i <= len + n THEN bytes[i - len] ELSE ext[i]]
    IN Take(filled, len + n)

\* (mutant) the end of the input is never noticed
EofNever(n) == FALSE

\* (mutant) a read of a single byte is taken for the end of the input
EofAfterShort(n) == n <= 1

\* line 95
EofAfterRead(n) == n = 0

\* Chunk::NeedMoreData(hint), lines 86-97
StripNeedMore ==
    /\ pc = "strip"
    /\ Chunk.t = "eof"
    /\ IF eofile
       THEN \* assert!(!eofile) panics; the unwinding drops output
            /\ Abandon("panic", "")
            /\ UNCHANGED stripVars
       ELSE \E n \in ReadSizes(Chunk.hint, Len(fs[iwasm].data) - inpos) :
            /\ buffer' = ReadInto(buffer, Chunk.hint,
                                  SubSeq(fs[iwasm].data, inpos + 1, inpos + n))
            /\ inpos' = inpos + n
            /\ eofile' = EofAfterRead(n)
            /\ UNCHANGED <<fs, pc, err, inner, rm, droplog, parser, pstack, depth, marks>>
    /\ UNCHANGED <<iwasm, owasm, run, tarball, payload_len, fs0, test>>

\* inwasm.read(..)? fails, line 92
StripReadFail ==
    /\ pc = "strip"
    /\ Chunk.t = "eof"
    /\ ~eofile
    /\ Abandon("exit_err", "IOError")
    /\ UNCHANGED <<iwasm, owasm, run, tarball, payload_len, fs0, test>>
    /\ UNCHANGED stripVars

\* parser.parse(..)? fails, line 84
StripParseFail ==
    /\ pc = "strip"
    /\ Chunk.t = "err"
    /\ Abandon("exit_err", "MalformedInput")
    /\ UNCHANGED <<iwasm, owasm, run, tarball, payload_len, fs0, test>>
    /\ UNCHANGED stripVars

\* the arm of `match payload`, lines 100-119, an event takes
MatchArm(kind, name) ==
    CASE kind = "ModuleCodeSectionEntry" -> "push"
      [] kind = "End" -> "end"
      [] kind = "CustomSection" /\ name = Section -> "drop"
      [] OTHER -> "write"

Arm == MatchArm(Chunk.kind, Chunk.name)

RECURSIVE Mark(_, _)
\* k input bytes consumed by one event, written (w) or not
Mark(k, w) == IF k = 0 THEN <<>> ELSE <<w>> \o Mark(k - 1, w)

\* line 121 drains the consumed bytes of the event at hand: they are marked
\* by the arm the event took (w: the arm that writes)
Marked(w) == marks \o Mark(Len(buffer) - Len(buffer'), w)

\* pstack.push(parser), and pstack.pop()
Push(stack, p) == Append(stack, p)

\* (mutant) the parent parser is read but left on the stack
PopKeep(stack) == stack

Pop(stack) == SubSeq(stack, 1, Len(stack) - 1)

\* lines 101-104 and 121
StripEntry ==
    /\ pc = "strip"
    /\ Chunk.t = "ok"
    /\ Arm = "push"
    /\ pstack' = Push(pstack, Chunk.p)
    /\ parser' = Chunk.sub
    /\ buffer' = Drain(buffer, Chunk.consumed)
    /\ depth' = depth + 1
    /\ marks' = Marked(FALSE)
    /\ UNCHANGED <<fs, iwasm, owasm, run, pc, err, tarball, payload_len, inpos,
                   eofile, inner, rm, droplog, fs0, test>>

\* lines 106-112 and 121: resume the parent parser, or return Ok(output)
StripEnd ==
    /\ pc = "strip"
    /\ Chunk.t = "ok"
    /\ Arm = "end"
    /\ IF pstack # <<>>
       THEN /\ parser' = pstack[Len(pstack)]
            /\ pstack' = Pop(pstack)
            /\ buffer' = Drain(buffer, Chunk.consumed)
            /\ pc' = pc
       ELSE /\ parser' = Chunk.p
            /\ pc' = "w_id"
            /\ UNCHANGED <<pstack, buffer>>
    /\ depth' = IF depth > 0 THEN depth - 1 ELSE 0
    /\ marks' = Marked(FALSE)
    /\ UNCHANGED <<fs, iwasm, owasm, run, err, tarball, payload_len, inpos,
                   eofile, inner, rm, droplog, fs0, test>>

\* lines 114 and 121: the section is left out
StripDrop ==
    /\ pc = "strip"
    /\ Chunk.t = "ok"
    /\ Arm = "drop"
    /\ parser' = Chunk.p
    /\ buffer' = Drain(buffer, Chunk.consumed)
    /\ marks' = Marked(FALSE)
    /\ UNCHANGED <<fs, iwasm, owasm, run, pc, err, tarball, payload_len, inpos,
                   eofile, pstack, inner, rm, droplog, fs0, test, depth>>

\* lines 116-118 and 121: the consumed bytes go to the output
StripForward ==
    /\ pc = "strip"
    /\ Chunk.t = "ok"
    /\ Arm = "write"
    /\ fs' = WriteAll(fs, owasm, Take(buffer, Chunk.consumed))
    /\ parser' = Chunk.p
    /\ buffer' = Drain(buffer, Chunk.consumed)
    /\ marks' = Marked(TRUE)
    /\ UNCHANGED <<iwasm, owasm, run, pc, err, tarball, payload_len, inpos,
                   eofile, pstack, inner, rm, droplog, fs0, test, depth>>

\* output.write_all(..)? fails, line 117
StripForwardFail ==
    /\ pc = "strip"
    /\ Chunk.t = "ok"
    /\ Arm = "write"
    /\ Abandon("exit_err", "IOError")
    /\ UNCHANGED <<iwasm, owasm, run, tarball, payload_len, fs0, test>>
    /\ UNCHANGED stripVars

(***************************************************************************)
(* Bundle::execute after the strip pass (bundle.rs:143-151).               *)
(***************************************************************************)
AppendStep(at, bytes, next) ==
    /\ pc = at
    /\ fs' = WriteAll(fs, owasm, bytes)
    /\ pc' = next
    /\ UNCHANGED <<iwasm, owasm, run, err, tarball, payload_len, inner, rm, droplog, fs0, test>>
    /\ UNCHANGED stripVars

\* line 144
WriteId == AppendStep("w_id", <<CustomId>>, "w_len")
\* line 145
WriteLen == AppendStep("w_len", Leb128(payload_len), "w_namelen")
\* line 146
WriteNameLen == AppendStep("w_namelen", NameLen, "w_name")
\* (mutant) the content is not copied: done() follows the name
WriteNameThenDone == AppendStep("w_name", Section, "done")

\* line 147
WriteName == AppendStep("w_name", Section, "w_copy")
\* line 148
CopyTarball == AppendStep("w_copy", tarball, "done")

AppendPcs == {"w_id", "w_len", "w_namelen", "w_name", "w_copy"}

\* one of the five writes fails
AppendFail ==
    /\ pc \in AppendPcs
    /\ Abandon("exit_err", "IOError")
    /\ UNCHANGED <<iwasm, owasm, run, tarball, payload_len, fs0, test>>
    /\ UNCHANGED stripVars

\* line 150: output.done() takes the file out of the handle; the emptied
\* handle is dropped as done returns, the File right after; then Ok(())
Done ==
    /\ pc = "done"
    /\ \E rmok \in BOOLEAN :
        /\ fs' = DropFs(DoneTake(inner), fs, owasm, rmok)
        /\ rm' = DropRm(DoneTake(inner), rmok)
        /\ droplog' = DropLog(DoneTake(inner))
    /\ inner' = "None"
    /\ pc' = "exit_ok"
    /\ UNCHANGED <<iwasm, owasm, run, err, tarball, payload_len, fs0, test>>
    /\ UNCHANGED stripVars

\* the command is run again on the module it has just written
Rerun ==
    /\ pc = "exit_ok"
    /\ run = "first"
    /\ run' = "second"
    /\ iwasm' = owasm
    /\ owasm' = "out2"
    /\ pc' = "prepare"
    /\ err' = ""
    /\ tarball' = <<>>
    /\ payload_len' = 0
    /\ inpos' = 0
    /\ buffer' = <<>>
    /\ parser' = NewParser(NoLimit)
    /\ eofile' = FALSE
    /\ pstack' = <<>>
    /\ inner' = "Unborn"
    /\ rm' = "none"
    /\ droplog' = <<>>
    /\ fs0' = fs
    /\ depth' = 0
    /\ marks' = <<>>
    /\ UNCHANGED <<fs, test>>

Next ==
    \/ PrepareTarball
    \/ PrepareTarballFail
    \/ ComputeLen
    \/ OpenInput
    \/ OpenInputFail
    \/ CreateOutput
    \/ CreateOutputFail
    \/ StripNeedMore
    \/ StripReadFail
    \/ StripParseFail
    \/ StripEntry
    \/ StripEnd
    \/ StripDrop
    \/ StripForward
    \/ StripForwardFail
    \/ WriteId
    \/ WriteLen
    \/ WriteNameLen
    \/ WriteName
    \/ CopyTarball
    \/ AppendFail
    \/ Done
    \/ Rerun

Spec == Init /\ [][Next]_vars

\* the steps the program takes by itself: every action but the failures of
\* the file system, which may happen but need not, and the next run, which
\* is the user's to start
Progress ==
    \/ PrepareTarball
    \/ ComputeLen
    \/ OpenInput
    \/ CreateOutput
    \/ StripNeedMore
    \/ StripParseFail
    \/ StripEntry
    \/ StripEnd
    \/ StripDrop
    \/ StripForward
    \/ WriteId
    \/ WriteLen
    \/ WriteNameLen
    \/ WriteName
    \/ CopyTarball
    \/ Done

\* a sequential program that is not blocked takes its next step
LiveSpec == Init /\ [][Next]_vars /\ WF_vars(Progress)

(***************************************************************************)
(* Reading a module back by the grammar (for the properties only): the     *)
(* custom sections of a byte sequence, nested modules included, or not ok  *)
(* when the bytes are no module.                                           *)
(***************************************************************************)
Good(cs) == [ok |-> TRUE, customs |-> cs]
Bad == [ok |-> FALSE, customs |-> <<>>]
Both(a, b) == IF a.ok /\ b.ok THEN Good(a.customs \o b.customs) ELSE Bad

RECURSIVE RefModule(_), RefSections(_), RefEntries(_, _)
RefModule(b) ==
    IF Len(b) < 8 \/ Take(b, 8) # Header THEN Bad ELSE RefSections(Drain(b, 8))

RefSections(b) ==
    IF b = <<>> THEN Good(<<>>)
    ELSE LET l == ReadVar(b, 2) IN
         IF l.t # "ok" \/ Len(b) < 1 + l.n + l.val THEN Bad
         ELSE LET body == SubSeq(b, 2 + l.n, 1 + l.n + l.val)
                  rest == Drain(b, 1 + l.n + l.val)
                  this ==
                      IF b[1] = CustomId
                      THEN LET nm == CustomName(body) IN
                           IF nm.t # "ok" THEN Bad
                           ELSE Good(<<[name |-> nm.val, content |-> Drain(body, nm.n)]>>)
                      ELSE IF b[1] = ModuleCodeId
                      THEN LET c == ReadVar(body, 1) IN
                           IF c.t # "ok" THEN Bad
                           ELSE RefEntries(Drain(body, c.n), c.val)
                      ELSE Good(<<>>)
              IN Both(this, RefSections(rest))

RefEntries(b, k) ==
    IF k = 0 THEN (IF b = <<>> THEN Good(<<>>) ELSE Bad)
    ELSE LET s == ReadVar(b, 1) IN
         IF s.t # "ok" \/ Len(b) < s.n + s.val THEN Bad
         ELSE Both(RefModule(SubSeq(b, s.n + 1, s.n + s.val)),
                   RefEntries(Drain(b, s.n + s.val), k - 1))

\* the contents of the custom sections named X of a module
XContents(b) ==
    LET cs == RefModule(b).customs
    IN [i \in 1..Cardinality({j \in 1..Len(cs) : cs[j].name = Section}) |->
          cs[CHOOSE j \in 1..Len(cs) :
               /\ cs[j].name = Section
               /\ Cardinality({k \in 1..j : cs[k].name = Section}) = i].content]

IsModule(b) == RefModule(b).ok
HasNoX(b) == IsModule(b) /\ XContents(b) = <<>>

InData == fs[iwasm].data
OutData == fs[owasm].data
Ended == {"exit_ok", "exit_err", "panic"}
Created == inner # "Unborn"

(***************************************************************************)
(* The claims.                                                             *)
(***************************************************************************)

\* C1 as stated: a run that fails after OutputFile::create succeeded and
\* before done() leaves no file at the destination path, and a file is at
\* the destination path after a run only if the run reached done().
C1_NoFileUnlessDone ==
    /\ (pc \in {"exit_err", "panic"} /\ Created) => ~fs[owasm].exists
    /\ (pc \in Ended /\ Created /\ fs[owasm].exists) => pc = "exit_ok"

\* C1 amended: a run that fails after OutputFile::create succeeded and
\* before done() leaves no file at the destination path unless remove_file
\* itself failed (the failure is swallowed); and after a run that created
\* the output, a file is at the destination path only if the run reached
\* done() or the removal failed.
C1_NoFileUnlessDoneOrRemoveFailed ==
    /\ (pc \in {"exit_err", "panic"} /\ Created) =>
           (~fs[owasm].exists \/ rm = "failed")
    /\ (pc \in Ended /\ Created /\ fs[owasm].exists) =>
           (pc = "exit_ok" \/ rm = "failed")
    /\ (pc = "exit_ok") => rm = "none"

\* C1 witness: a run that created the output over an older file, wrote to
\* it, failed, and removed it.
C1_Witness ==
    /\ pc = "exit_err"
    /\ err = "IOError"
    /\ Created
    /\ rm = "ok"
    /\ fs0[owasm].exists
    /\ ~fs[owasm].exists

\* C2: after done() the file at the path exists, and nothing later (the
\* drop of the consumed handle, the drop of the returned File, a later run
\* reading it) removes it.
C2_DoneKeepsFile ==
    /\ pc = "exit_ok" => (fs[owasm].exists /\ inner = "None" /\ rm = "none")
    /\ run = "second" => fs[iwasm].exists

\* C2 witness: a run that reached done(), its file in place.
C2_Witness ==
    /\ pc = "exit_ok"
    /\ inner = "None"
    /\ fs[owasm].exists
    /\ Len(OutData) > Len(Header)

\* C3: when the strip pass returns, the output is byte for byte the input,
\* for every module with no custom section named X, nested modules
\* included.
C3_StripIdentity ==
    (pc = "w_id" /\ HasNoX(InData)) => OutData = InData

\* C4: the consumed bytes of an event are left out of the output if and
\* only if the event is a custom section named X; the bytes of every other
\* event are written as they are.
C4_DropIffTarget ==
    [][(pc = "strip" /\ Chunk.t = "ok" /\ pc' \in {"strip", "w_id"}) =>
         ((fs'[owasm].data = OutData \o Take(buffer, Chunk.consumed))
            <=> ~(Chunk.kind = "CustomSection" /\ Chunk.name = Section))]_vars

\* the length the new section's header must carry, and whether the sum
\* fits the platform word
TrueLen == Len(NameLen) + Len(Section) + Len(tarball)
Fits == TrueLen <= UsizeMax

\* the module the first run was given
FirstInput == fs["in"].data

\* C5: after strip-then-append is run twice with the name X, the result is
\* a module with exactly one custom section named X, holding the second
\* payload (where its length fits, see C9); the second run does not reject
\* what the first wrote; and the strip pass leaves a module with no section
\* named X, however many the input holds.
C5_TwiceLeavesOne ==
    /\ (run = "second" /\ pc = "exit_ok" /\ IsModule(FirstInput) /\ Fits) =>
           (IsModule(OutData) /\ XContents(OutData) = <<tarball>>)
    /\ (run = "second" /\ pc = "exit_err" /\ IsModule(FirstInput)) =>
           err # "MalformedInput"
    /\ (pc = "w_id" /\ IsModule(InData)) =>
           (IsModule(OutData) /\ XContents(OutData) = <<>>)

\* the bytes of the new section
NewSection == <<0>> \o Leb128(TrueLen) \o Leb128(Len(Section)) \o Section \o tarball

Suffix(s, k) == SubSeq(s, Len(s) - k + 1, Len(s))

\* C6: execute appends exactly 0, varint(total length), varint(name
\* length), the name, the content; hence for a module with no section
\* named X the output read back has exactly one custom section named X,
\* whose content is the payload.
C6_AppendedSection ==
    /\ pc = "exit_ok" =>
           (/\ Len(OutData) >= Len(NewSection)
            /\ Suffix(OutData, Len(NewSection)) = NewSection)
    /\ (pc = "exit_ok" /\ HasNoX(InData)) =>
           (IsModule(OutData) /\ XContents(OutData) = <<tarball>>)

\* the parser, at the end of the input, still needs bytes for the structure
\* it is in
NeedsBytes ==
    LET over == Len(buffer) > parser.max_size
        data == IF over THEN Take(buffer, parser.max_size) ELSE buffer
    IN ParseReader(parser, data, TRUE).t = "eof"

C8_CreateLast ==
    /\ [](~Created => fs = fs0)
    /\ [](Created => (tarball \in Tarballs /\ Len(tarball) <= UsizeMax /\ fs0[iwasm].exists))
    /\ [][(pc \in {"prepare", "len", "open"} /\ pc' \in {"exit_err", "panic"}) =>
            (~Created' /\ fs' = fs0 /\ rm' = "none")]_vars

\* C8 witness: the archive was rejected, and the file that was at the
\* output path is still there, untouched.
C8_Witness ==
    /\ pc = "exit_err"
    /\ err = "InvalidArchive"
    /\ ~Created
    /\ fs[owasm] = File(OldOutput)

\* C9: when content length + name length + length of the name-length varint
\* exceeds the platform's integer range, no section header is written whose
\* length field is a wrapped value: the run has failed before.
C9_NoWrappedLength ==
    (pc \in {"w_namelen", "w_name", "w_copy", "done", "exit_ok"}) =>
        (Fits /\ payload_len = TrueLen)

\* C10: the length of pstack is the nesting depth; a nested-entry event
\* pushes exactly one parser and makes the sub-parser the active one; an
\* end event with a non-empty stack pops exactly one and resumes it; the
\* pass returns only on an end event with an empty stack, and parses
\* nothing after that.
C10_StackIsDepth ==
    /\ [](Len(pstack) = depth)
    /\ [][(pc = "strip" /\ Chunk.t = "ok" /\ pc' \in {"strip", "w_id"}) =>
            CASE Chunk.kind = "ModuleCodeSectionEntry" ->
                   /\ pstack' = Append(pstack, Chunk.p)
                   /\ parser' = Chunk.sub
                   /\ pc' = "strip"
              [] Chunk.kind = "End" /\ pstack # <<>> ->
                   /\ Len(pstack') = Len(pstack) - 1
                   /\ pstack = Append(pstack', parser')
                   /\ pc' = "strip"
              [] Chunk.kind = "End" /\ pstack = <<>> ->
                   /\ pc' = "w_id"
                   /\ pstack' = <<>>
              [] OTHER ->
                   /\ pstack' = pstack
                   /\ parser' = Chunk.p
                   /\ pc' = "strip"]_vars
    /\ [][(pc = "strip" /\ pc' = "w_id") => (Chunk.t = "ok" /\ Chunk.kind = "End")]_vars
    /\ [][(pc \in AppendPcs \cup {"done"}) => UNCHANGED stripVars]_vars

\* C10 witness: two levels deep, the parser of a module nested in a nested
\* module active.
C10_Witness ==
    /\ pc = "strip"
    /\ Len(pstack) = 2
    /\ depth = 2
    /\ parser.state = "SectionStart"

\* an iteration that read from the input and goes round again
ReadStep == pc = "strip" /\ Chunk.t = "eof" /\ pc' = "strip"

\* C11: eofile is set exactly when a read returns zero bytes (a short read
\* does not set it); once set it is never cleared and the input is not read
\* again; the parser never asks for more data while it is set, so
\* assert!(!eofile) never fails.
C11_EofFlag ==
    /\ [][ReadStep =>
            (/\ eofile' <=> (inpos' = inpos)
             /\ inpos' - inpos <= Chunk.hint
             /\ Len(buffer') = Len(buffer) + (inpos' - inpos))]_vars
    /\ [][(eofile /\ pc' # "prepare") => (eofile' /\ inpos' = inpos)]_vars
    /\ []((pc = "strip" /\ eofile) => Chunk.t # "eof")
    /\ [](pc = "panic" => ~Created)

\* C11 witness: a read asked for the four bytes of the magic and got two;
\* the flag is not set.
C11_Witness ==
    /\ pc = "strip"
    /\ parser.state = "ModuleHeader"
    /\ Chunk.t = "eof"
    /\ Chunk.hint = 2
    /\ inpos = 2
    /\ Len(InData) > 2
    /\ ~eofile

\* an iteration that parsed an event and did not fail
EventStep == pc = "strip" /\ Chunk.t = "ok" /\ pc' \in {"strip", "w_id"}

\* the bytes read from the input and not yet consumed
Unconsumed == SubSeq(InData, inpos - Len(buffer) + 1, inpos)

\* C12 as stated: the buffer grows, before a retry, by exactly the count
\* the parser requested, and shrinks, after each event, by exactly
\* `consumed` bytes from the front; it changes in no other way and holds
\* only bytes read from the input.
C12_BufferExact ==
    /\ [][ReadStep => Len(buffer') = Len(buffer) + Chunk.hint]_vars
    /\ [][EventStep => buffer' = Drain(buffer, Chunk.consumed)]_vars
    /\ [][(buffer' # buffer /\ pc' # "prepare") => (ReadStep \/ EventStep)]_vars
    /\ [](pc = "strip" => (Len(buffer) <= inpos /\ buffer = Unconsumed))

\* C12 amended: before a retry the buffer grows by the bytes the read
\* returned, at most the count the parser requested (fewer on a short read,
\* none at the end of the input); after each event, forwarded or dropped,
\* nested entry or end, it shrinks by exactly `consumed` bytes from the
\* front; it changes in no other way, so it never holds more than the
\* outstanding request asked for, and it holds only bytes read from the
\* input.
C12_BufferAtMost ==
    /\ [][ReadStep =>
            (/\ buffer' = buffer \o SubSeq(InData, inpos + 1, inpos')
             /\ Len(buffer') <= Len(buffer) + Chunk.hint)]_vars
    /\ [][EventStep => buffer' = Drain(buffer, Chunk.consumed)]_vars
    /\ [][(buffer' # buffer /\ pc' # "prepare") => (ReadStep \/ EventStep)]_vars
    /\ [](pc = "strip" => (Len(buffer) <= inpos /\ buffer = Unconsumed))

\* C12 witness: inside a section, part of what was asked for has been read
\* and more is asked for.
C12_Witness ==
    /\ pc = "strip"
    /\ parser.state = "SectionStart"
    /\ Len(buffer) >= 3
    /\ Chunk.t = "eof"
    /\ Chunk.hint >= 1
    /\ ~eofile
    /\ buffer = Unconsumed

RECURSIVE Forwarded(_, _)
\* the bytes of data whose mark says written, in order
Forwarded(data, m) ==
    IF m = <<>> \/ data = <<>> THEN <<>>
    ELSE (IF Head(m) THEN <<Head(data)>> ELSE <<>>)
             \o Forwarded(Tail(data), Tail(m))

\* C13: during the strip pass, and as it returns, every input byte consumed
\* so far is marked once, forwarded or dropped, by the event that consumed
\* it; marks are only appended; and the output holds exactly the forwarded
\* bytes, unaltered and in input order.
C13_ForwardedSpans ==
    /\ [](pc \in {"strip", "w_id"} =>
            (/\ Len(marks) = inpos - Len(buffer)
             /\ OutData = Forwarded(Take(InData, Len(marks)), marks)))
    /\ [][(pc = "strip" /\ pc' \in {"strip", "w_id"}) =>
            (/\ Take(marks', Len(marks)) = marks
             /\ Len(marks') = Len(marks) + (Len(buffer) + (inpos' - inpos) - Len(buffer')))]_vars

\* C13 witness: part of the input has been forwarded, part dropped, and the
\* pass is not over.
C13_Witness ==
    /\ pc = "strip"
    /\ \E i, j \in 1..Len(marks) : marks[i] /\ ~marks[j] /\ j > 8
    /\ \E k \in 1..Len(marks) : k > 8 /\ marks[k]
    /\ Len(marks) < Len(InData)
    /\ OutData = Forwarded(Take(InData, Len(marks)), marks)

\* the order of the steps of one run; any step may instead fail
RunOrder ==
    <<"prepare", "len", "open", "create", "strip", "w_id", "w_len",
      "w_namelen", "w_name", "w_copy", "done", "exit_ok">>

\* the part of the new section written when the run is at step at
AppendedAt(at) ==
    CASE at = "w_id" -> <<>>
      [] at = "w_len" -> <<CustomId>>
      [] at = "w_namelen" -> <<CustomId>> \o Leb128(payload_len)
      [] at = "w_name" -> <<CustomId>> \o Leb128(payload_len) \o NameLen
      [] at = "w_copy" ->
            <<CustomId>> \o Leb128(payload_len) \o NameLen \o Section
      [] OTHER ->
            <<CustomId>> \o Leb128(payload_len) \o NameLen \o Section
                \o tarball

\* what the strip pass forwarded
Stripped == Forwarded(Take(InData, Len(marks)), marks)

\* C14: a run takes its steps in the order strip (parse, forward or drop,
\* drain, repeated), append, commit, each step going to the next one of the
\* run or to a failure; the strip pass is left for the append only at an End
\* event met with an empty parser stack; up to that point the output holds
\* forwarded bytes only, afterwards the forwarded bytes followed by the part
\* of the new section written so far; and the handle is committed only from
\* the step after the content copy, with the id byte, both varints, the name
\* and the whole content in the output.
C14_StrictOrder ==
    /\ [][(pc' # pc /\ pc' \notin {"exit_err", "panic"}) =>
            \/ \E i \in 1..(Len(RunOrder) - 1) :
                    pc = RunOrder[i] /\ pc' = RunOrder[i + 1]
            \/ pc = "exit_ok" /\ pc' = "prepare"]_vars
    /\ [][(pc = "strip" /\ pc' = "w_id") =>
            (Chunk.t = "ok" /\ Arm = "end" /\ pstack = <<>>)]_vars
    /\ [](pc = "strip" => OutData = Stripped)
    /\ [](pc \in AppendPcs \cup {"done"} =>
            OutData = Stripped \o AppendedAt(pc))
    /\ [][(inner = "Some" /\ inner' = "None" /\ pc' = "exit_ok") =>
            (pc = "done" /\ OutData = Stripped \o AppendedAt("done"))]_vars

\* C14 witness: the whole section has been appended after a pass that
\* dropped a section, and done() is about to be called.
C14_Witness ==
    /\ pc = "done"
    /\ inner = "Some"
    /\ \E j \in 1..Len(marks) : ~marks[j] /\ j > 8
    /\ OutData = Stripped \o AppendedAt("done")
    /\ Len(tarball) > 0

\* C15: a created handle eventually is committed or abandoned, with the run
\* returning success or an error; the handle is armed all through the strip
\* loop, so the loop is left, and it is left only by returning the handle
\* to the append or by an error; and every iteration that stays in the loop
\* has read input, met the end of the input, consumed buffer bytes or popped
\* the stack.
C15_StripTerminates ==
    /\ (inner = "Some") ~> (inner = "None" /\ pc \in {"exit_ok", "exit_err"})
    /\ [](pc = "strip" => inner = "Some")
    /\ [][(pc = "strip" /\ pc' # "strip") => pc' \in {"w_id", "exit_err"}]_vars
    /\ [][(pc = "strip" /\ pc' = "strip") =>
            \/ inpos' > inpos
            \/ ~eofile /\ eofile'
            \/ Len(buffer') < Len(buffer)
            \/ Len(pstack') < Len(pstack)]_vars

\* C15 witness: a nested parser has reached its end at the end of the
\* input with nothing left in the buffer; the iteration pops the stack.
C15_Witness ==
    /\ pc = "strip"
    /\ eofile
    /\ pstack # <<>>
    /\ Chunk.t = "ok"
    /\ Arm = "end"
    /\ Chunk.consumed = 0

\* C16: within a run the handle goes from not created to armed to emptied
\* and never back; the file is closed and removed only in the step that
\* empties an armed handle by dropping it, at most once, and never by or
\* after done(); a finished run has either committed (nothing removed, the
\* file there) or abandoned (one removal attempted); and wherever the run
\* is about to write through the handle, or to call done(), it is armed.
C16_ArmedThenOneEnd ==
    /\ [][(inner' # inner /\ pc' # "prepare") =>
            \/ inner = "Unborn" /\ inner' = "Some"
            \/ inner = "Some" /\ inner' = "None"]_vars
    /\ [][(droplog' # droplog /\ pc' # "prepare") =>
            (/\ inner = "Some" /\ inner' = "None"
             /\ droplog = <<>> /\ droplog' = DropOrder
             /\ pc # "done" /\ pc' \in {"exit_err", "panic"})]_vars
    /\ [][(rm' # rm /\ pc' # "prepare") => droplog' # droplog]_vars
    /\ [](pc = "exit_ok" =>
            (inner = "None" /\ droplog = <<>> /\ rm = "none" /\ fs[owasm].exists))
    /\ []((pc \in {"exit_err", "panic"} /\ Created) =>
            (inner = "None" /\ droplog = DropOrder /\ rm # "none"))
    /\ [](pc \in {"strip", "done"} \cup AppendPcs => inner = "Some")
    /\ [][(pc' # "prepare" /\ fs'[owasm].exists /\ fs[owasm].exists
              /\ fs'[owasm].data # fs[owasm].data /\ pc # "create") =>
            inner = "Some"]_vars

\* C16 witness: the handle of a second run has been abandoned after the
\* handle of the first run was committed; the committed file is still there.
C16_Witness ==
    /\ run = "second"
    /\ pc = "exit_err"
    /\ inner = "None"
    /\ droplog = DropOrder
    /\ rm = "ok"
    /\ fs[iwasm].exists
    /\ ~fs[owasm].exists

\* the error the failing step at hand reports
PrimaryError ==
    IF pc = "strip" /\ Chunk.t = "err" THEN "MalformedInput" ELSE "IOError"

\* C17: a drop of an armed handle closes the file and then calls
\* remove_file, in that order and once; when the removal fails the run
\* still ends with the error of the step that failed, not with a panic and
\* not with another error, and the file stays at the path.
C17_RemovalSwallowed ==
    /\ [](droplog \in {<<>>, <<"close", "remove_file">>})
    /\ [][(inner = "Some" /\ inner' = "None" /\ pc # "done") =>
            (/\ droplog' = <<"close", "remove_file">>
             /\ rm' \in {"ok", "failed"}
             /\ pc' = "exit_err"
             /\ err' = PrimaryError
             /\ (rm' = "failed") <=> fs'[owasm].exists)]_vars
    /\ [](rm = "failed" =>
            (/\ pc = "exit_err"
             /\ err \in {"IOError", "MalformedInput"}
             /\ fs[owasm].exists))

\* C17 witness: the input was malformed, the handle was dropped, the removal
\* failed; the run reports the malformed input.
C17_Witness ==
    /\ pc = "exit_err"
    /\ rm = "failed"
    /\ err = "MalformedInput"
    /\ droplog = <<"close", "remove_file">>
    /\ fs[owasm].exists

\* C18: at every point of a run the input module file is there with the
\* content it had when the run started, whatever the two paths are.
C18_InputUntouched == fs[iwasm] = fs0[iwasm]

(***************************************************************************)
(* The tests of ofile.rs (lines 126-152) as two threads of one test        *)
(* process. Both build the path from the process id, so they share it.     *)
(* The command's variables stay as they are.                               *)
(***************************************************************************)
TestPath == "/tmp/output-file.pid"

\* the test process starts: nothing at the path, or a file left there by an
\* earlier process with the same id
TestInit ==
    /\ \E o \in {NoFile, File(OldOutput)} : fs = [p \in {TestPath} |-> o]
    /\ test = [NoTest EXCEPT !.pc = [t \in Tests |-> "create"]]
    /\ iwasm = "in"
    /\ owasm = "out"
    /\ run = "first"
    /\ pc = "prepare"
    /\ err = ""
    /\ tarball = <<>>
    /\ payload_len = 0
    /\ inpos = 0
    /\ buffer = <<>>
    /\ parser = NewParser(NoLimit)
    /\ eofile = FALSE
    /\ pstack = <<>>
    /\ inner = "Unborn"
    /\ rm = "none"
    /\ fs0 = fs
    /\ depth = 0
    /\ marks = <<>>
    /\ droplog = <<>>

commandVars ==
    <<iwasm, owasm, run, pc, err, tarball, payload_len, inpos, buffer, parser,
      eofile, pstack, inner, rm, fs0, depth, marks, droplog>>

\* std::fs::remove_file succeeds when there is a file at the path
RemoveOk(f, path) == f[path].exists

\* thread t goes to its next statement
TestGoto(t, next) == test' = [test EXCEPT !.pc[t] = next]

\* a failed assert! or unwrap() at the given line panics: the thread's
\* locals are dropped, an armed handle among them, and the test has failed
TestPanic(t, at) ==
    /\ fs' = DropFs(test.inner[t], fs, TestPath, RemoveOk(fs, TestPath))
    /\ test' = [test EXCEPT !.pc[t] = "failed", !.line[t] = at,
                            !.inner[t] = IF @ = "Some" THEN "None" ELSE @]

\* assert!(cond) at the given line
TestAssert(t, at, cond, next) ==
    /\ test.pc[t] = at
    /\ IF cond THEN TestGoto(t, next) /\ UNCHANGED fs
               ELSE TestPanic(t, at)
    /\ UNCHANGED commandVars

\* lines 132 and 145: let file = OutputFile::create(path).unwrap()
TestCreate(t) ==
    /\ test.pc[t] = "create"
    /\ fs' = CreateFile(fs, TestPath)
    /\ test' = [test EXCEPT !.pc[t] = "exists", !.inner[t] = "Some"]
    /\ UNCHANGED commandVars

\* lines 133 and 146: assert!(path.exists())
TestExists(t) ==
    TestAssert(t, "exists", fs[TestPath].exists, "is_file")

\* lines 134 and 147: assert!(path.is_file())
TestIsFile(t) ==
    TestAssert(t, "is_file", fs[TestPath].exists,
               IF t = "removed" THEN "drop" ELSE "done")

\* removed, line 135: drop(file)
RemovedDrop ==
    /\ test.pc["removed"] = "drop"
    /\ fs' = DropFs(test.inner["removed"], fs, TestPath, RemoveOk(fs, TestPath))
    /\ test' = [test EXCEPT !.pc["removed"] = "gone", !.inner["removed"] = "None"]
    /\ UNCHANGED commandVars

\* removed, line 136: assert!(!path.exists())
RemovedGone ==
    TestAssert("removed", "gone", ~fs[TestPath].exists, "passed")

\* retained, line 148: drop(file.done())
RetainedDone ==
    /\ test.pc["retained"] = "done"
    /\ fs' = DropFs(DoneTake(test.inner["retained"]), fs, TestPath,
                    RemoveOk(fs, TestPath))
    /\ test' = [test EXCEPT !.pc["retained"] = "kept",
                            !.inner["retained"] = DoneTake(@)]
    /\ UNCHANGED commandVars

\* retained, line 149: assert!(path.exists())
RetainedKept ==
    TestAssert("retained", "kept", fs[TestPath].exists, "remove")

\* retained, line 151: std::fs::remove_file(path).unwrap()
RetainedRemove ==
    /\ test.pc["retained"] = "remove"
    /\ IF RemoveOk(fs, TestPath)
       THEN /\ fs' = [fs EXCEPT ![TestPath] = NoFile]
            /\ TestGoto("retained", "passed")
       ELSE TestPanic("retained", "remove")
    /\ UNCHANGED commandVars

TestNext ==
    \/ \E t \in Tests : TestCreate(t)
    \/ \E t \in Tests : TestExists(t)
    \/ \E t \in Tests : TestIsFile(t)
    \/ RemovedDrop
    \/ RemovedGone
    \/ RetainedDone
    \/ RetainedKept
    \/ RetainedRemove

TestSpec == TestInit /\ [][TestNext]_vars

\* C19: no assertion and no unwrap() of either test fails, whatever the
\* interleaving of the two threads.
C19_TestsPass == \A t \in Tests : test.pc[t] # "failed"

====
